---- MODULE Spec2Model ----
(***************************************************************************)
(* Model of src/ordered_set/__init__.py: StableSet (an insertion-ordered   *)
(* dict used as a set) and OrderedSet (a list `_items` plus a dict `_map`  *)
(* from element to position).  One StableSet and one OrderedSet are built  *)
(* from the same initial sequence and receive the same calls.              *)
(*                                                                         *)
(* A Python dict is an insertion-ordered mapping: StableSet._map, whose    *)
(* values are all None, is the sequence of its keys; OrderedSet._map is a  *)
(* sequence of <<key, value>> pairs.  Positions are zero-based as in the   *)
(* source; TLA+ sequences are one-based.                                   *)
(***************************************************************************)
EXTENDS Integers, Sequences, FiniteSets

\* ------------------------------------------------------------- bounds
\* the element universe, the longest list and the longest argument sequence
\* of the specification with every operation
MaxElem == 2
MaxLen == 2
MaxArgLen == 2
\* the element universe of the specifications with only add and discard, where
\* no list grows beyond the number of elements
WideElem == 5

Elems == 1..MaxElem
WideElems == 1..WideElem

RECURSIVE SeqsUpTo(_, _)
SeqsUpTo(E, n) ==
    IF n = 0 THEN {<<>>}
    ELSE LET S == SeqsUpTo(E, n - 1)
         IN  S \cup {Append(s, e) : s \in {t \in S : Len(t) = n - 1}, e \in E}

\* the sequences (a set-like argument is iterated in some order, so it is
\* one of these too) handed to the constructor, update and the *_update calls
Sources == SeqsUpTo(Elems, MaxArgLen)
WideSources == SeqsUpTo(WideElems, MaxArgLen)

\* a value that cannot be hashed (a list, say), and the sequences that hold it
Unhashable == MaxElem + 1
Hashable(x) == x # Unhashable
BadSources ==
    {s \in SeqsUpTo(Elems \cup {Unhashable}, MaxArgLen) : \E i \in 1..Len(s) : s[i] = Unhashable}

\* the integers handed to pop(index): the default -1, the positions and one
\* integer past the end; and those with a negative integer other than -1
PopIndexes == (0 - 1)..MaxLen
AnyPopIndexes == (0 - 2)..MaxLen

\* the *sets argument tuples of difference_update: zero, one or two arguments
SetArgs == {<<>>} \cup {<<a>> : a \in Sources}
              \cup {<<<<a>>, <<b>>>> : a \in Elems, b \in Elems}

\* the *sets argument tuples of union, intersection and difference: those of
\* SetArgs and the pairs of sequences whose lengths add up to MaxArgLen at most
SetPairs == {<<a, b>> : a \in Sources, b \in Sources}
QuerySets == SetArgs \cup {sets \in SetPairs : Len(sets[1]) + Len(sets[2]) <= MaxArgLen}

\* the right-hand sides of ==: a sequence (a list, or another container), a
\* set that is no sequence (iterated in some order), an object that cannot be
\* iterated
Others ==
    {[kind |-> "sequence", items |-> s] : s \in Sources}
        \cup {[kind |-> "set", items |-> s] :
                  s \in {u \in Sources : \A i, j \in 1..Len(u) : u[i] = u[j] => i = j}}
        \cup {[kind |-> "object", items |-> <<>>]}

\* ------------------------------------------------- python primitives
Range(s) == {s[i] : i \in 1..Len(s)}

\* position (zero-based) of the first occurrence of x in s; x occurs in s
PosOf(s, x) == (CHOOSE i \in 1..Len(s) : s[i] = x /\ \A j \in 1..(i - 1) : s[j] # x) - 1

\* list indexing l[i] with python's negative indices
PyIdxOk(l, i) == (0 - Len(l)) <= i /\ i < Len(l)
PyPos(l, i) == IF i < 0 THEN Len(l) + i + 1 ELSE i + 1
ListDel(l, p) == SubSeq(l, 1, p - 1) \o SubSeq(l, p + 1, Len(l))

\* dict with None values (keys only): d[k] = None, d.pop(k), dict.fromkeys(seq)
KeysSet(m, k) == IF k \in Range(m) THEN m ELSE Append(m, k)
KeysDel(m, k) == SelectSeq(m, LAMBDA x : x # k)
RECURSIVE KeysUpdate(_, _)
KeysUpdate(m, s) == IF s = <<>> THEN m ELSE KeysUpdate(KeysSet(m, Head(s)), Tail(s))
FromKeys(s) == KeysUpdate(<<>>, s)

\* dict with values: k in d, d[k], d[k] = v, del d[k], d.keys()
DictHas(m, k) == \E i \in 1..Len(m) : m[i][1] = k
DictGet(m, k) == m[CHOOSE i \in 1..Len(m) : m[i][1] = k][2]
DictSet(m, k, v) ==
    IF DictHas(m, k)
    THEN [i \in 1..Len(m) |-> IF m[i][1] = k THEN <<k, v>> ELSE m[i]]
    ELSE Append(m, <<k, v>>)
DictDel(m, k) == SelectSeq(m, LAMBDA p : p[1] # k)
DictKeys(m) == [i \in 1..Len(m) |-> m[i][1]]

\* set(other) and the union of set(other) over *sets
RECURSIVE UnionOfSets(_)
UnionOfSets(sets) ==
    IF sets = <<>> THEN {} ELSE Range(Head(sets)) \cup UnionOfSets(Tail(sets))

\* it.chain.from_iterable(map(list, sets)) and set.intersection(*map(set, sets))
RECURSIVE Chain(_)
Chain(sets) == IF sets = <<>> THEN <<>> ELSE Head(sets) \o Chain(Tail(sets))
RECURSIVE IntersectionOfSets(_)
IntersectionOfSets(sets) ==
    IF Len(sets) = 1 THEN Range(Head(sets))
    ELSE Range(Head(sets)) \cap IntersectionOfSets(Tail(sets))

\* the pickled states: the tuple (None,) and a list of elements
NoneTuple == [type |-> "tuple", items |-> <<"None">>]
ListState(l) == [type |-> "list", items |-> l]
IsNoneTuple(state) == state.type = "tuple" /\ state.items = <<"None">>

\* a call's outcome: ret is <<>> for None and <<v>> for the value v; err is
\* "ok" or the exception that left the method
SRes(m, r, e) == [map |-> m, ret |-> r, err |-> e]
ORes(it, m, r, e) == [items |-> it, map |-> m, ret |-> r, err |-> e]
\* the outcome of a call that returns a value and changes nothing
QRes(r, e) == [ret |-> r, err |-> e]

\* ---------------------------------------------------------- StableSet
SS_init(initial) == FromKeys(initial)

SS_len(m) == Len(m)

SS_iter(m) == m

\* faulty variant of add: appends without looking for the key
SS_add_append(m, key) == SRes(Append(m, key), <<Len(m)>>, "ok")

SS_add(m, key) ==
    LET m2 == KeysSet(m, key)
    IN  SRes(m2, <<Len(m2) - 1>>, "ok")

\* dict.fromkeys(sequence) raises TypeError at a value that cannot be hashed,
\* before self._map is touched
SS_update(m, sequence) ==
    IF \E i \in 1..Len(sequence) : ~Hashable(sequence[i])
    THEN SRes(m, <<>>, "ValueError")
    ELSE LET other_map == FromKeys(sequence)
             m2 == KeysUpdate(m, other_map)
         IN  SRes(m2, <<Len(m2) - 1>>, "ok")

SS_pop(m, index) ==
    IF m = <<>> THEN SRes(m, <<>>, "KeyError")
    ELSE IF index = 0 - 1 THEN SRes(SubSeq(m, 1, Len(m) - 1), <<m[Len(m)]>>, "ok")
    ELSE IF index = 0 THEN SRes(KeysDel(m, m[1]), <<m[1]>>, "ok")
    ELSE IF index < 0 THEN SRes(m, <<>>, "ValueError")
    ELSE IF index >= Len(m) THEN SRes(m, <<>>, "StopIteration")
    ELSE SRes(KeysDel(m, m[index + 1]), <<m[index + 1]>>, "ok")

SS_popitem(m, last) ==
    IF m = <<>> THEN SRes(m, <<>>, "KeyError")
    ELSE IF last THEN SRes(SubSeq(m, 1, Len(m) - 1), <<m[Len(m)]>>, "ok")
    ELSE SRes(KeysDel(m, m[1]), <<m[1]>>, "ok")

SS_move_to_end(m, key) ==
    IF key \notin Range(m) THEN SRes(m, <<>>, "KeyError")
    ELSE SRes(KeysSet(KeysDel(m, key), key), <<>>, "ok")

SS_discard(m, key) == SRes(KeysDel(m, key), <<>>, "ok")

SS_clear(m) == SRes(<<>>, <<>>, "ok")

SS_difference_update(m, sets) ==
    LET items_to_remove == UnionOfSets(sets)
    IN  SRes(FromKeys(SelectSeq(m, LAMBDA item : item \notin items_to_remove)), <<>>, "ok")

SS_intersection_update(m, other) ==
    SRes(FromKeys(SelectSeq(m, LAMBDA item : item \in Range(other))), <<>>, "ok")

SS_symmetric_difference_update(m, other) ==
    LET items_to_add == SelectSeq(other, LAMBDA item : item \notin Range(m))
        items_to_remove == Range(other)
    IN  SRes(FromKeys(SelectSeq(m, LAMBDA item : item \notin items_to_remove) \o items_to_add),
             <<>>, "ok")

SS_getstate(m) == IF SS_len(m) = 0 THEN NoneTuple ELSE ListState(SS_iter(m))

\* faulty variant of __setstate__: no test for the marker
SS_setstate_unmarked(state) == SS_init(state.items)

SS_setstate(state) == IF IsNoneTuple(state) THEN SS_init(<<>>) ELSE SS_init(state.items)

\* faulty variant of union: self is left out of the chain
SS_union_args(m, sets) == SS_init(Chain(sets))

SS_union(m, sets) == SS_init(Chain(<<SS_iter(m)>> \o sets))

\* faulty variant of intersection: set.union in the place of set.intersection
SS_intersection_any(m, sets) ==
    IF sets # <<>>
    THEN LET common == UnionOfSets(sets)
         IN  SS_init(SelectSeq(SS_iter(m), LAMBDA item : item \in common))
    ELSE SS_init(SS_iter(m))

SS_intersection(m, sets) ==
    IF sets # <<>>
    THEN LET common == IntersectionOfSets(sets)
         IN  SS_init(SelectSeq(SS_iter(m), LAMBDA item : item \in common))
    ELSE SS_init(SS_iter(m))

SS_difference(m, sets) ==
    IF sets # <<>>
    THEN LET other == UnionOfSets(sets)
         IN  SS_init(SelectSeq(SS_iter(m), LAMBDA item : item \notin other))
    ELSE SS_init(SS_iter(m))

\* faulty variant of symmetric_difference: diff2.union(diff1)
SS_symmetric_difference_swapped(m, other) ==
    LET diff1 == SS_difference(SS_init(SS_iter(m)), <<other>>)
        diff2 == SS_difference(SS_init(other), <<SS_iter(m)>>)
    IN  SS_union(diff2, <<SS_iter(diff1)>>)

SS_symmetric_difference(m, other) ==
    LET diff1 == SS_difference(SS_init(SS_iter(m)), <<other>>)
        diff2 == SS_difference(SS_init(other), <<SS_iter(m)>>)
    IN  SS_union(diff1, <<SS_iter(diff2)>>)

\* issubset and issuperset read len(self), `in self`, len(other), `in other`
issubset(self_len, self_iter, other) ==
    IF self_len > Len(other) THEN QRes(<<FALSE>>, "ok")
    ELSE QRes(<<\A i \in 1..Len(self_iter) : self_iter[i] \in Range(other)>>, "ok")

issuperset(self_len, self_keys, other) ==
    IF self_len < Len(other) THEN QRes(<<FALSE>>, "ok")
    ELSE QRes(<<\A i \in 1..Len(other) : other[i] \in self_keys>>, "ok")

\* the loop of isorderedsubset: self[i] reads self_items, which is the list
\* when self is a list, the keys when self is a StableSet
RECURSIVE isorderedsubset_loop(_, _, _, _)
isorderedsubset_loop(self_len, self_items, other, i) ==
    IF other = <<>> THEN QRes(<<FALSE>>, "ok")
    ELSE IF i >= Len(self_items) THEN QRes(<<>>, "IndexError")
    ELSE IF Head(other) = self_items[i + 1]
         THEN IF i + 1 = self_len THEN QRes(<<TRUE>>, "ok")
              ELSE isorderedsubset_loop(self_len, self_items, Tail(other), i + 1)
         ELSE isorderedsubset_loop(self_len, self_items, Tail(other), i)

isorderedsubset(self_len, self_items, other) ==
    IF self_len > Len(other) THEN QRes(<<FALSE>>, "ok")
    ELSE isorderedsubset_loop(self_len, self_items, other, 0)

\* faulty variant of isprefix: no comparison of the lengths
isprefix_nolen(self_len, self_iter, other) ==
    QRes(<<\A i \in 1..Len(self_iter) : i <= Len(other) => self_iter[i] = other[i]>>, "ok")

\* zip(self, other) stops at the shorter of the two
isprefix(self_len, self_iter, other) ==
    IF self_len > Len(other) THEN QRes(<<FALSE>>, "ok")
    ELSE QRes(<<\A i \in 1..Len(self_iter) : i <= Len(other) => self_iter[i] = other[i]>>, "ok")

SS_issubset(m, other) == issubset(SS_len(m), SS_iter(m), other)

SS_issuperset(m, other) == issuperset(SS_len(m), Range(m), other)

SS_isorderedsubset(m, other) == isorderedsubset(SS_len(m), SS_iter(m), other)

\* StableSet.isorderedsubset(other, self)
SS_isorderedsuperset(m, other) == isorderedsubset(Len(other), other, SS_iter(m))

SS_isprefix(m, other) == isprefix(SS_len(m), SS_iter(m), other)

\* StableSet.isprefix(other, self)
SS_ispostfix(m, other) == isprefix(Len(other), other, SS_iter(m))

\* self[index] for an int: next(itertools.islice(keys, index, index + 1));
\* islice refuses a negative index with ValueError
SS_getitem_int(m, index) ==
    IF index < 0 THEN QRes(<<>>, "ValueError")
    ELSE IF index >= Len(m) THEN QRes(<<>>, "IndexError")
    ELSE QRes(<<m[index + 1]>>, "ok")

\* index(key) for a key that is not iterable
SS_index_key(m, key) ==
    IF \E i \in 1..Len(m) : m[i] = key THEN QRes(<<PosOf(m, key)>>, "ok")
    ELSE QRes(<<>>, "KeyError")

\* faulty variant of |: the chain of __ror__
SS_or_reflected(m, other) == SS_init(Chain(<<other, SS_iter(m)>>))

\* self | other: cls(e for s in (self, other) for e in s)
SS_or(m, other) == SS_init(Chain(<<SS_iter(m), other>>))

\* self - other, other a list: other = cls(other), then the values of self
\* that are not in it
SS_sub(m, other) ==
    LET other_set == SS_init(other)
    IN  SS_init(SelectSeq(SS_iter(m), LAMBDA value : value \notin Range(other_set)))

\* other - self, other a list: the values of cls(other) that are not in self
SS_rsub(m, other) ==
    LET other_set == SS_init(other)
    IN  SS_init(SelectSeq(SS_iter(other_set), LAMBDA value : value \notin Range(m)))

SS_and(m, other) == SS_intersection(m, <<other>>)

\* (self - other) | (other - self); a list has no __sub__, so that
\* other - self is self.__rsub__(other)
SS_xor(m, other) == SS_or(SS_sub(m, other), SS_iter(SS_rsub(m, other)))

\* ---------------------------------------------------------- StableSetEq
\* StableSetEq has StableSet's _map and methods; set(other) raises TypeError
\* for an object that cannot be iterated
SSE_eq(m, other) ==
    IF other.kind = "object" THEN FALSE
    ELSE Range(m) = Range(other.items)

\* the comparisons with a list: len(other) is the length of the list
SSE_le(m, other) == SS_len(m) <= Len(other) /\ Range(m) \subseteq Range(other)

SSE_lt(m, other) ==
    SS_len(m) < Len(other) /\ Range(m) \subseteq Range(other) /\ Range(m) # Range(other)

SSE_ge(m, other) == SS_len(m) >= Len(other) /\ Range(other) \subseteq Range(m)

SSE_gt(m, other) ==
    SS_len(m) > Len(other) /\ Range(other) \subseteq Range(m) /\ Range(m) # Range(other)

\* --------------------------------------------------------- OrderedSet
\* len(), iteration and `in` are inherited from StableSet: they read _map
OS_len(mp) == Len(mp)

OS_iter(mp) == DictKeys(mp)

OS_contains(mp, key) == DictHas(mp, key)

\* faulty variant of add: no `key not in self._map` test
OS_add_unchecked(it, mp, key) ==
    LET mp2 == DictSet(mp, key, Len(it))
    IN  ORes(Append(it, key), mp2, <<DictGet(mp2, key)>>, "ok")

OS_add(it, mp, key) ==
    IF ~DictHas(mp, key)
    THEN LET mp2 == DictSet(mp, key, Len(it))
         IN  ORes(Append(it, key), mp2, <<DictGet(mp2, key)>>, "ok")
    ELSE ORes(it, mp, <<DictGet(mp, key)>>, "ok")

\* self |= initial: MutableSet.__ior__ adds each value in turn
RECURSIVE OS_ior(_, _, _)
OS_ior(it, mp, values) ==
    IF values = <<>> THEN ORes(it, mp, <<>>, "ok")
    ELSE LET a == OS_add(it, mp, Head(values))
         IN  OS_ior(a.items, a.map, Tail(values))

OS_init(initial) == OS_ior(<<>>, <<>>, initial)

RECURSIVE OS_update_from(_, _, _, _)
\* self.add(item) raises TypeError at `key not in self._map` for a value that
\* cannot be hashed
OS_update_from(it, mp, sequence, item_index) ==
    IF sequence = <<>> THEN ORes(it, mp, <<item_index>>, "ok")
    ELSE IF ~Hashable(Head(sequence)) THEN ORes(it, mp, <<>>, "ValueError")
    ELSE LET a == OS_add(it, mp, Head(sequence))
         IN  OS_update_from(a.items, a.map, Tail(sequence), a.ret[1])

\* faulty variant of update: the sequence is looked over before any add
OS_update_atomic(it, mp, sequence) ==
    IF \E i \in 1..Len(sequence) : ~Hashable(sequence[i])
    THEN ORes(it, mp, <<>>, "ValueError")
    ELSE OS_update_from(it, mp, sequence, 0)

OS_update(it, mp, sequence) == OS_update_from(it, mp, sequence, 0)

OS_index(mp, key) == DictGet(mp, key)

OS_getitem(it, index) == it[PyPos(it, index)]

OS_pop(it, mp, index) ==
    IF it = <<>> THEN ORes(it, mp, <<>>, "KeyError")
    ELSE IF ~PyIdxOk(it, index) THEN ORes(it, mp, <<>>, "IndexError")
    ELSE LET elem == it[PyPos(it, index)]
             it2 == ListDel(it, PyPos(it, index))
         IN  IF ~DictHas(mp, elem) THEN ORes(it2, mp, <<>>, "KeyError")
             ELSE ORes(it2, DictDel(mp, elem), <<elem>>, "ok")

OS_popitem(it, mp, last) == OS_pop(it, mp, IF last THEN 0 - 1 ELSE 0)

\* faulty variant of the repair loop: positions left as they are
Reindex_none(mp, i) == mp

\* for k, v in self._map.items(): if v >= i: self._map[k] = v - 1
Reindex(mp, i) ==
    [j \in 1..Len(mp) |-> IF mp[j][2] >= i THEN <<mp[j][1], mp[j][2] - 1>> ELSE mp[j]]

OS_discard(it, mp, key) ==
    IF ~OS_contains(mp, key) THEN ORes(it, mp, <<>>, "ok")
    ELSE LET i == DictGet(mp, key)
         IN  IF ~PyIdxOk(it, i) THEN ORes(it, mp, <<>>, "IndexError")
             ELSE ORes(ListDel(it, PyPos(it, i)), Reindex(DictDel(mp, key), i), <<>>, "ok")

OS_move_to_end(it, mp, key) ==
    IF OS_contains(mp, key)
    THEN LET d == OS_discard(it, mp, key)
         IN  IF d.err # "ok" THEN d
             ELSE LET a == OS_add(d.items, d.map, key)
                  IN  ORes(a.items, a.map, <<>>, "ok")
    ELSE ORes(it, mp, <<>>, "KeyError")

OS_clear(it, mp) == ORes(<<>>, <<>>, <<>>, "ok")

\* {item: idx for (idx, item) in enumerate(items)}
RECURSIVE EnumerateDict(_, _, _)
EnumerateDict(mp, items, idx) ==
    IF items = <<>> THEN mp
    ELSE EnumerateDict(DictSet(mp, Head(items), idx), Tail(items), idx + 1)

OS_update_items(items) == ORes(items, EnumerateDict(<<>>, items, 0), <<>>, "ok")

OS_difference_update(it, mp, sets) ==
    LET items_to_remove == UnionOfSets(sets)
    IN  OS_update_items(SelectSeq(it, LAMBDA item : item \notin items_to_remove))

OS_intersection_update(it, mp, other) ==
    OS_update_items(SelectSeq(it, LAMBDA item : item \in Range(other)))

OS_symmetric_difference_update(it, mp, other) ==
    LET items_to_add == SelectSeq(other, LAMBDA item : ~OS_contains(mp, item))
        items_to_remove == Range(other)
    IN  OS_update_items(SelectSeq(it, LAMBDA item : item \notin items_to_remove) \o items_to_add)

\* the methods OrderedSet inherits: they read len(self), iteration and `in`
\* from _map, and self[i] from _items; cls(...) is OrderedSet(...)
OS_getstate(mp) == IF OS_len(mp) = 0 THEN NoneTuple ELSE ListState(OS_iter(mp))

OS_setstate(state) == IF IsNoneTuple(state) THEN OS_init(<<>>) ELSE OS_init(state.items)

OS_union(mp, sets) == OS_init(Chain(<<OS_iter(mp)>> \o sets))

OS_intersection(mp, sets) ==
    IF sets # <<>>
    THEN LET common == IntersectionOfSets(sets)
         IN  OS_init(SelectSeq(OS_iter(mp), LAMBDA item : item \in common))
    ELSE OS_init(OS_iter(mp))

OS_difference(mp, sets) ==
    IF sets # <<>>
    THEN LET other == UnionOfSets(sets)
         IN  OS_init(SelectSeq(OS_iter(mp), LAMBDA item : item \notin other))
    ELSE OS_init(OS_iter(mp))

OS_symmetric_difference(mp, other) ==
    LET diff1 == OS_difference(OS_init(OS_iter(mp)).map, <<other>>)
        diff2 == OS_difference(OS_init(other).map, <<OS_iter(mp)>>)
    IN  OS_union(diff1.map, <<OS_iter(diff2.map)>>)

OS_issubset(mp, other) == issubset(OS_len(mp), OS_iter(mp), other)

OS_issuperset(mp, other) == issuperset(OS_len(mp), Range(OS_iter(mp)), other)

OS_isorderedsubset(it, mp, other) == isorderedsubset(OS_len(mp), it, other)

OS_isorderedsuperset(mp, other) == isorderedsubset(Len(other), other, OS_iter(mp))

OS_isprefix(mp, other) == isprefix(OS_len(mp), OS_iter(mp), other)

OS_ispostfix(mp, other) == isprefix(Len(other), other, OS_iter(mp))

\* self[index] for an int: self._items[index]
OS_getitem_int(it, index) ==
    IF PyIdxOk(it, index) THEN QRes(<<OS_getitem(it, index)>>, "ok")
    ELSE QRes(<<>>, "IndexError")

\* index(key) for a key that is not iterable: self._map[key]
OS_index_key(mp, key) ==
    IF DictHas(mp, key) THEN QRes(<<OS_index(mp, key)>>, "ok")
    ELSE QRes(<<>>, "KeyError")

OS_eq(it, mp, other) ==
    IF other.kind = "sequence" THEN OS_len(mp) = Len(other.items) /\ it = other.items
    ELSE IF other.kind = "object" THEN FALSE
    ELSE Range(DictKeys(mp)) = Range(other.items)

\* the operators OrderedSet inherits; cls is OrderedSet
OS_or(mp, other) == OS_init(Chain(<<OS_iter(mp), other>>))

OS_sub(mp, other) ==
    LET other_set == OS_init(other)
    IN  OS_init(SelectSeq(OS_iter(mp), LAMBDA value : ~OS_contains(other_set.map, value)))

OS_rsub(mp, other) ==
    LET other_set == OS_init(other)
    IN  OS_init(SelectSeq(OS_iter(other_set.map), LAMBDA value : ~OS_contains(mp, value)))

OS_and(mp, other) == OS_intersection(mp, <<other>>)

OS_xor(mp, other) == OS_or(OS_sub(mp, other).map, OS_iter(OS_rsub(mp, other).map))

\* ------------------------------------------------------ state machine
VARIABLES
    s_map,      \* StableSet._map: its keys, in dict order
    o_items,    \* OrderedSet._items
    o_map,      \* OrderedSet._map: <<key, position>> pairs, in dict order
    op,         \* the name of the last call that changes the containers
    q,          \* the last call that only returns a value, until the next call:
                \* its name, its arguments and what each container returned
    tracked,    \* history: whether s_added and o_added are being recorded
    s_added,    \* history: the elements added to the StableSet and not removed
                \* since, in the order of their adds
    o_added     \* the same history for the OrderedSet

vars == <<s_map, o_items, o_map, op, q, tracked, s_added, o_added>>

NoQuery == [name |-> "none", args |-> <<>>, s |-> <<>>, o |-> <<>>]

\* history bookkeeping: an add that is the first since the element's last
\* removal puts it at the end; a removal takes it out
Added(h, x) == IF x \in Range(h) THEN h ELSE Append(h, x)
Removed(h, x) == SelectSeq(h, LAMBDA y : y # x)
RECURSIVE AddedAll(_, _)
AddedAll(h, s) == IF s = <<>> THEN h ELSE AddedAll(Added(h, Head(s)), Tail(s))
\* a call that raised removed nothing as far as its caller knows
RemovedBy(h, r, x) == IF r.err = "ok" THEN Removed(h, x) ELSE h
PoppedBy(h, r) == IF r.err = "ok" THEN Removed(h, r.ret[1]) ELSE h

\* one call made on both containers.  The guard keeps the lists within cap.
\* The history is recorded (t) from construction or clear() for as long as the
\* calls are add, discard, pop, popitem and move_to_end; update and the
\* *_update calls end the recording.
Step(cap, name, s, o, t, sh, oh) ==
    /\ Len(s.map) <= cap
    /\ Len(o.items) <= cap
    /\ op' = name
    /\ q' = NoQuery
    /\ s_map' = s.map
    /\ o_items' = o.items
    /\ o_map' = o.map
    /\ tracked' = t
    /\ s_added' = IF t THEN sh ELSE <<>>
    /\ o_added' = IF t THEN oh ELSE <<>>

Construct(initial) ==
    /\ s_map = SS_init(initial)
    /\ o_items = OS_init(initial).items
    /\ o_map = OS_init(initial).map
    /\ op = "init"
    /\ q = NoQuery
    /\ tracked = TRUE
    /\ s_added = AddedAll(<<>>, initial)
    /\ o_added = AddedAll(<<>>, initial)

Init == \E initial \in Sources : Construct(initial)

InitWide == \E initial \in WideSources : Construct(initial)

InitEmpty == Construct(<<>>)

Add(E, cap) ==
    \E key \in E :
        Step(cap, "add", SS_add(s_map, key), OS_add(o_items, o_map, key), tracked,
             Added(s_added, key), Added(o_added, key))

Discard(E, cap) ==
    \E key \in E :
        LET s == SS_discard(s_map, key)
            o == OS_discard(o_items, o_map, key)
        IN  Step(cap, "discard", s, o, tracked,
                 RemovedBy(s_added, s, key), RemovedBy(o_added, o, key))

Pop(indexes) ==
    \E index \in indexes :
        LET s == SS_pop(s_map, index)
            o == OS_pop(o_items, o_map, index)
        IN  Step(MaxLen, "pop", s, o, tracked, PoppedBy(s_added, s), PoppedBy(o_added, o))

PopItem ==
    \E last \in BOOLEAN :
        LET s == SS_popitem(s_map, last)
            o == OS_popitem(o_items, o_map, last)
        IN  Step(MaxLen, "popitem", s, o, tracked, PoppedBy(s_added, s), PoppedBy(o_added, o))

MoveToEnd ==
    \E key \in Elems :
        LET s == SS_move_to_end(s_map, key)
            o == OS_move_to_end(o_items, o_map, key)
        IN  Step(MaxLen, "move_to_end", s, o, tracked,
                 IF s.err = "ok" THEN Added(Removed(s_added, key), key) ELSE s_added,
                 IF o.err = "ok" THEN Added(Removed(o_added, key), key) ELSE o_added)

Clear ==
    Step(MaxLen, "clear", SS_clear(s_map), OS_clear(o_items, o_map), TRUE, <<>>, <<>>)

Update ==
    \E sequence \in Sources :
        Step(MaxLen, "update", SS_update(s_map, sequence),
             OS_update(o_items, o_map, sequence), FALSE, <<>>, <<>>)

\* update with a sequence that holds a value that cannot be hashed
UpdateUnhashable ==
    \E sequence \in BadSources :
        Step(MaxLen, "update", SS_update(s_map, sequence),
             OS_update(o_items, o_map, sequence), FALSE, <<>>, <<>>)

DifferenceUpdate ==
    \E sets \in SetArgs :
        Step(MaxLen, "difference_update", SS_difference_update(s_map, sets),
             OS_difference_update(o_items, o_map, sets), FALSE, <<>>, <<>>)

IntersectionUpdate ==
    \E other \in Sources :
        Step(MaxLen, "intersection_update", SS_intersection_update(s_map, other),
             OS_intersection_update(o_items, o_map, other), FALSE, <<>>, <<>>)

SymmetricDifferenceUpdate ==
    \E other \in Sources :
        Step(MaxLen, "symmetric_difference_update",
             SS_symmetric_difference_update(s_map, other),
             OS_symmetric_difference_update(o_items, o_map, other), FALSE, <<>>, <<>>)

\* one call that returns a value and assigns nothing, made on both
\* containers; its outcome is observed before the next call is made
Query(name, args, s, o) ==
    /\ q.name = NoQuery.name
    /\ q' = [name |-> name, args |-> args, s |-> s, o |-> o]
    /\ UNCHANGED <<s_map, o_items, o_map, op, tracked, s_added, o_added>>

\* pickling: __getstate__, then __setstate__ on a new object
GetSetState ==
    Query("getstate", <<>>,
          [state |-> SS_getstate(s_map), restored |-> SS_setstate(SS_getstate(s_map))],
          [state |-> OS_getstate(o_map), restored |-> OS_setstate(OS_getstate(o_map))])

\* A.union(B, C) and A.union(B).union(C)
Union ==
    \E sets \in QuerySets :
        Query("union", sets,
              [all |-> SS_union(s_map, sets),
               chained |-> IF Len(sets) = 2
                           THEN SS_union(SS_union(s_map, <<sets[1]>>), <<sets[2]>>)
                           ELSE SS_union(s_map, sets)],
              [all |-> OS_union(o_map, sets),
               chained |-> IF Len(sets) = 2
                           THEN OS_union(OS_union(o_map, <<sets[1]>>).map, <<sets[2]>>)
                           ELSE OS_union(o_map, sets)])

Intersection ==
    \E sets \in QuerySets :
        Query("intersection", sets, SS_intersection(s_map, sets), OS_intersection(o_map, sets))

Difference ==
    \E sets \in QuerySets :
        Query("difference", sets, SS_difference(s_map, sets), OS_difference(o_map, sets))

SymmetricDifference ==
    \E other \in Sources :
        Query("symmetric_difference", other, SS_symmetric_difference(s_map, other),
              OS_symmetric_difference(o_map, other))

IsSubset ==
    \E other \in Sources :
        Query("issubset", other, SS_issubset(s_map, other), OS_issubset(o_map, other))

IsSuperset ==
    \E other \in Sources :
        Query("issuperset", other, SS_issuperset(s_map, other), OS_issuperset(o_map, other))

IsOrderedSubset ==
    \E other \in Sources :
        Query("isorderedsubset", other, SS_isorderedsubset(s_map, other),
              OS_isorderedsubset(o_items, o_map, other))

IsOrderedSuperset ==
    \E other \in Sources :
        Query("isorderedsuperset", other, SS_isorderedsuperset(s_map, other),
              OS_isorderedsuperset(o_map, other))

IsPrefix ==
    \E other \in Sources :
        Query("isprefix", other, SS_isprefix(s_map, other), OS_isprefix(o_map, other))

IsPostfix ==
    \E other \in Sources :
        Query("ispostfix", other, SS_ispostfix(s_map, other), OS_ispostfix(o_map, other))

GetItem ==
    \E index \in AnyPopIndexes :
        Query("getitem", index, SS_getitem_int(s_map, index), OS_getitem_int(o_items, index))

Index ==
    \E key \in Elems :
        Query("index", key, SS_index_key(s_map, key), OS_index_key(o_map, key))

\* self == other, on a StableSetEq and on the OrderedSet
Eq ==
    \E other \in Others :
        Query("eq", other, SSE_eq(s_map, other), OS_eq(o_items, o_map, other))

\* self <= other, self < other, self >= other and self > other on a
\* StableSetEq, other a list
Compare ==
    \E other \in Sources :
        Query("compare", other,
              [le |-> SSE_le(s_map, other), lt |-> SSE_lt(s_map, other),
               ge |-> SSE_ge(s_map, other), gt |-> SSE_gt(s_map, other)],
              <<>>)

\* self | other, self - other, self & other and self ^ other
Operators ==
    \E other \in Sources :
        Query("operators", other,
              [or |-> SS_or(s_map, other), sub |-> SS_sub(s_map, other),
               and |-> SS_and(s_map, other), xor |-> SS_xor(s_map, other)],
              [or |-> OS_or(o_map, other), sub |-> OS_sub(o_map, other),
               and |-> OS_and(o_map, other), xor |-> OS_xor(o_map, other)])

\* pop() and pop(i) with 0 <= i < size
PopValid ==
    Pop({0 - 1} \cup {i \in 0..MaxLen : i < SS_len(s_map) /\ i < OS_len(o_map)})

Next ==
    \/ Add(Elems, MaxLen)
    \/ Discard(Elems, MaxLen)
    \/ Pop(AnyPopIndexes)
    \/ PopItem
    \/ MoveToEnd
    \/ Clear
    \/ Update
    \/ DifferenceUpdate
    \/ IntersectionUpdate
    \/ SymmetricDifferenceUpdate

Spec == Init /\ [][Next]_vars

\* add, discard, pop, popitem, move_to_end and clear
NextMutate ==
    \/ Add(Elems, MaxLen)
    \/ Discard(Elems, MaxLen)
    \/ Pop(PopIndexes)
    \/ PopItem
    \/ MoveToEnd
    \/ Clear

SpecMutate == Init /\ [][NextMutate]_vars

\* add, discard, pop and popitem
NextOrder == Add(Elems, MaxLen) \/ Discard(Elems, MaxLen) \/ Pop(PopIndexes) \/ PopItem

SpecOrder == Init /\ [][NextOrder]_vars

\* only add and discard, on containers built by the constructor
NextAddRemove == Add(WideElems, WideElem) \/ Discard(WideElems, WideElem)

SpecAddRemove == InitWide /\ [][NextAddRemove]_vars

\* only add, on an empty container
NextAdd == Add(WideElems, WideElem)

SpecAdd == InitEmpty /\ [][NextAdd]_vars

\* the calls that return a value, on the containers that the constructor,
\* discard, pop and popitem leave
NextQuery ==
    \/ Discard(Elems, MaxLen)
    \/ Pop(PopIndexes)
    \/ PopItem
    \/ GetItem
    \/ Index
    \/ Operators
    \/ GetSetState
    \/ Union
    \/ Intersection
    \/ Difference
    \/ SymmetricDifference
    \/ IsSubset
    \/ IsSuperset
    \/ IsOrderedSubset
    \/ IsOrderedSuperset
    \/ IsPrefix
    \/ IsPostfix

SpecQuery == Init /\ [][NextQuery]_vars

\* update with any sequence, among add, discard, pop, popitem, move_to_end
\* and clear
NextUpdate ==
    \/ NextMutate
    \/ Update
    \/ UpdateUnhashable

SpecUpdate == Init /\ [][NextUpdate]_vars

\* the comparisons, on the containers that add, discard, pop and popitem leave
NextEq == NextOrder \/ Eq \/ Compare

SpecEq == Init /\ [][NextEq]_vars

\* the calls that both variants are to answer alike
NextPeers ==
    \/ Add(Elems, MaxLen)
    \/ Discard(Elems, MaxLen)
    \/ PopValid
    \/ PopItem
    \/ MoveToEnd
    \/ Update
    \/ DifferenceUpdate
    \/ IntersectionUpdate
    \/ SymmetricDifferenceUpdate

SpecPeers == Init /\ [][NextPeers]_vars

\* ---------------------------------------------------------- properties
AllElems == Elems \cup WideElems

\* every integer a recorded position can be
Positions == (0 - 1)..(MaxLen + WideElem)

NoRepeat(s) == \A i, j \in 1..Len(s) : s[i] = s[j] => i = j

\* a comes before b in s
Before(s, a, b) == a \in Range(s) /\ b \in Range(s) /\ PosOf(s, a) < PosOf(s, b)

\* _map[x] == i exactly when _items[i] == x
PositionMapAgrees(it, mp) ==
    \A x \in AllElems : \A i \in Positions :
        (DictHas(mp, x) /\ DictGet(mp, x) = i) <=> (0 <= i /\ i < Len(it) /\ it[i + 1] = x)

\* C1: in OrderedSet, after any sequence of add, discard, pop, popitem,
\* move_to_end and clear, the position map and the list agree:
\* _map[x] == i if and only if _items[i] == x.
C1_PositionMapAgrees == PositionMapAgrees(o_items, o_map)

\* C2: in OrderedSet, after any sequence of add and discard, every retained
\* element x satisfies _items[index(x)] == x.
C2_Reindexed ==
    \A x \in AllElems :
        OS_contains(o_map, x) =>
            /\ PyIdxOk(o_items, OS_index(o_map, x))
            /\ OS_getitem(o_items, OS_index(o_map, x)) = x

\* a discard has happened and left elements at positions that it had to repair
C2_Witness ==
    /\ op = "discard"
    /\ o_items = <<2, 3, 5>>
    /\ o_map = <<<<2, 0>>, <<3, 1>>, <<5, 2>>>>
    /\ o_added = <<2, 3, 5>>

\* C3: in OrderedSet, after difference_update, intersection_update or
\* symmetric_difference_update (a sequence argument may repeat elements),
\* _items holds no element twice and _map[x] == i iff _items[i] == x.
C3_RebuildKeepsUnique ==
    op \in {"difference_update", "intersection_update", "symmetric_difference_update"} =>
        NoRepeat(o_items) /\ PositionMapAgrees(o_items, o_map)

\* C4: StableSet.add(x) returns the current zero-based position of x in the
\* container's order, also when x was already present.
C4_AddReturnsPosition ==
    \A x \in Elems :
        LET r == SS_add(s_map, x)
        IN  r.err = "ok" /\ r.ret = <<PosOf(SS_iter(r.map), x)>>

\* C5: in both variants and from any reachable state, add(x) twice in a row
\* leaves the same size and order as add(x) once, and the second call returns
\* the same index as the first.
C5_AddIdempotent ==
    \A x \in Elems :
        LET s1 == SS_add(s_map, x)
            s2 == SS_add(s1.map, x)
            o1 == OS_add(o_items, o_map, x)
            o2 == OS_add(o1.items, o1.map, x)
        IN  /\ SS_len(s2.map) = SS_len(s1.map)
            /\ SS_iter(s2.map) = SS_iter(s1.map)
            /\ s2.ret = s1.ret
            /\ OS_len(o2.map) = OS_len(o1.map)
            /\ OS_iter(o2.map) = OS_iter(o1.map)
            /\ o2.items = o1.items
            /\ o2.ret = o1.ret

\* an add has been made on containers that hold elements, so that add(x) of a
\* present x and of an absent x both occur
C5_Witness ==
    /\ op = "add"
    /\ Len(s_map) >= 1
    /\ Len(o_items) >= 1
    /\ \E x \in Elems : x \in Range(s_map) /\ OS_contains(o_map, x)
    /\ \E x \in Elems : x \notin Range(s_map) /\ ~OS_contains(o_map, x)

\* C6: in both variants, after any sequence of add calls on an empty
\* container, the size is the number of distinct elements that were added.
C6_SizeIsDistinctCount ==
    /\ SS_len(s_map) = Cardinality(Range(s_added))
    /\ OS_len(o_map) = Cardinality(Range(o_added))

\* adds have been made and three distinct elements are in
C6_Witness == op = "add" /\ Cardinality(Range(s_added)) = 3 /\ SS_len(s_map) = 3

\* C7: for a and b added with a before b and never removed since, iteration
\* yields a before b in both variants and index(a) < index(b) in OrderedSet.
C7_OrderPreserved ==
    tracked =>
        \A a, b \in Elems :
            /\ Before(s_added, a, b) => Before(SS_iter(s_map), a, b)
            /\ Before(o_added, a, b) =>
                   /\ Before(OS_iter(o_map), a, b)
                   /\ OS_index(o_map, a) < OS_index(o_map, b)

\* the elements of m, then the elements of source that are not in m, each
\* once, in the order of their first occurrence
Extended(m, source) == AddedAll(m, source)

\* C8: in both variants, update(source) for a non-empty source appends the
\* not-yet-present elements in first-occurrence order, keeps the existing
\* elements in place, and returns the position of the last element of source.
C8_UpdateReturnsLast ==
    \A source \in Sources \ {<<>>} :
        LET s == SS_update(s_map, source)
            o == OS_update(o_items, o_map, source)
            last == source[Len(source)]
        IN  /\ s.err = "ok"
            /\ SS_iter(s.map) = Extended(SS_iter(s_map), source)
            /\ s.ret = <<PosOf(SS_iter(s.map), last)>>
            /\ o.err = "ok"
            /\ OS_iter(o.map) = Extended(OS_iter(o_map), source)
            /\ o.ret = <<PosOf(OS_iter(o.map), last)>>

\* r removed and returned the element at (one-based) place p of order `before`
PoppedAt(r, after, before, p) ==
    /\ r.err = "ok"
    /\ r.ret = <<before[p]>>
    /\ after = ListDel(before, p)

\* C9: pop(i) with 0 <= i < size removes and returns the element at position
\* i, pop() and popitem(last=True) the last element, popitem(last=False) the
\* first; the size drops by one and the rest keep their order, in both variants.
C9_PopRemovesAt ==
    /\ \A i \in 0..(SS_len(s_map) - 1) :
           LET r == SS_pop(s_map, i)
           IN  PoppedAt(r, SS_iter(r.map), SS_iter(s_map), i + 1)
    /\ SS_len(s_map) > 0 =>
           LET n == SS_len(s_map)
               r == SS_pop(s_map, 0 - 1)
               l == SS_popitem(s_map, TRUE)
               f == SS_popitem(s_map, FALSE)
           IN  /\ PoppedAt(r, SS_iter(r.map), SS_iter(s_map), n)
               /\ PoppedAt(l, SS_iter(l.map), SS_iter(s_map), n)
               /\ PoppedAt(f, SS_iter(f.map), SS_iter(s_map), 1)
    /\ \A i \in 0..(OS_len(o_map) - 1) :
           LET r == OS_pop(o_items, o_map, i)
           IN  PoppedAt(r, OS_iter(r.map), OS_iter(o_map), i + 1)
    /\ OS_len(o_map) > 0 =>
           LET n == OS_len(o_map)
               r == OS_pop(o_items, o_map, 0 - 1)
               l == OS_popitem(o_items, o_map, TRUE)
               f == OS_popitem(o_items, o_map, FALSE)
           IN  /\ PoppedAt(r, OS_iter(r.map), OS_iter(o_map), n)
               /\ PoppedAt(l, OS_iter(l.map), OS_iter(o_map), n)
               /\ PoppedAt(f, OS_iter(f.map), OS_iter(o_map), 1)

\* C10: in both variants discard(x) of a present x deletes exactly x and
\* leaves the others in their order (in OrderedSet the elements before x keep
\* their position, those after x have it decremented by 1); discard(x) of an
\* absent x raises nothing and changes nothing.
C10_DiscardFrame ==
    \A x \in Elems :
        LET s == SS_discard(s_map, x)
            o == OS_discard(o_items, o_map, x)
        IN  /\ s.err = "ok"
            /\ SS_iter(s.map) = Removed(SS_iter(s_map), x)
            /\ o.err = "ok"
            /\ OS_iter(o.map) = Removed(OS_iter(o_map), x)
            /\ ~OS_contains(o_map, x) => o.items = o_items /\ o.map = o_map
            /\ OS_contains(o_map, x) =>
                   \A y \in Range(OS_iter(o.map)) :
                       OS_index(o.map, y) =
                           IF OS_index(o_map, y) < OS_index(o_map, x)
                           THEN OS_index(o_map, y)
                           ELSE OS_index(o_map, y) - 1

\* the elements of s, each once, in the order of their first occurrence
Dedup(s) == Extended(<<>>, s)

\* the elements of s that are in S, in the order of s
Keep(s, S) == SelectSeq(s, LAMBDA x : x \in S)

\* C11: for every container of either variant, __setstate__(__getstate__())
\* yields a container with the same elements in the same order; __getstate__
\* of an empty container (and of no other) returns the marker (None,), and
\* __setstate__ of the marker yields an empty container.
C11_StateRoundTrip ==
    q.name = "getstate" =>
        /\ SS_iter(q.s.restored) = SS_iter(s_map)
        /\ IsNoneTuple(q.s.state) <=> SS_len(s_map) = 0
        /\ IsNoneTuple(q.s.state) => SS_len(q.s.restored) = 0
        /\ q.o.restored.err = "ok"
        /\ OS_iter(q.o.restored.map) = OS_iter(o_map)
        /\ IsNoneTuple(q.o.state) <=> OS_len(o_map) = 0
        /\ IsNoneTuple(q.o.state) =>
               OS_len(q.o.restored.map) = 0 /\ q.o.restored.items = <<>>

\* a container of two elements has been pickled and restored
C11_Witness ==
    /\ q.name = "getstate"
    /\ s_map = <<2, 1>>
    /\ q.s.state = ListState(<<2, 1>>)
    /\ q.s.restored = <<2, 1>>
    /\ q.o.restored.items = <<2, 1>>

\* an empty container has been pickled and restored
C11_WitnessEmpty ==
    /\ q.name = "getstate"
    /\ s_map = <<>>
    /\ q.s.state = NoneTuple
    /\ q.s.restored = <<>>
    /\ q.o.state = NoneTuple

\* C12: A.union(B).union(C) and A.union(B, C) hold the same elements in the
\* same order: those of A, B and C concatenated, each kept at its first
\* occurrence only; the call leaves A as it was.
C12_UnionChained ==
    [][q'.name = "union" =>
          LET whole == Dedup(SS_iter(s_map) \o Chain(q'.args))
              owhole == Dedup(OS_iter(o_map) \o Chain(q'.args))
          IN  /\ q'.s.all = whole
              /\ q'.s.chained = whole
              /\ OS_iter(q'.o.all.map) = owhole
              /\ OS_iter(q'.o.chained.map) = owhole
              /\ s_map' = s_map
              /\ o_items' = o_items
              /\ o_map' = o_map]_vars

\* union(B, C) has been called with an element of C already in A
C12_Witness ==
    /\ q.name = "union"
    /\ s_map = <<1>>
    /\ q.args = <<<<2>>, <<1>>>>
    /\ q.s.all = <<1, 2>>
    /\ q.s.chained = <<1, 2>>
    /\ q.o.all.items = <<1, 2>>

\* C13: intersection(*sets) returns the elements of self that are in every
\* argument and difference(*sets) those that are in no argument, in self's
\* order; with no argument each returns the elements of self in self's order.
C13_IntersectionDifference ==
    /\ q.name = "intersection" =>
           LET InAll == {x \in Elems : \A k \in 1..Len(q.args) : x \in Range(q.args[k])}
           IN  /\ SS_iter(q.s) = Keep(SS_iter(s_map), InAll)
               /\ OS_iter(q.o.map) = Keep(OS_iter(o_map), InAll)
    /\ q.name = "difference" =>
           LET InNone == {x \in Elems : \A k \in 1..Len(q.args) : x \notin Range(q.args[k])}
           IN  /\ SS_iter(q.s) = Keep(SS_iter(s_map), InNone)
               /\ OS_iter(q.o.map) = Keep(OS_iter(o_map), InNone)

\* intersection has been called with an argument in another order than self
C13_Witness ==
    /\ q.name = "intersection"
    /\ s_map = <<2, 1>>
    /\ q.args = <<<<1, 2>>>>
    /\ q.s = <<2, 1>>
    /\ q.o.items = <<2, 1>>

\* C14: symmetric_difference(other) returns the elements that are in exactly
\* one of self and other: those of self not in other, in self's order, then
\* those of other not in self, in other's order, each once.
C14_SymmetricDifference ==
    q.name = "symmetric_difference" =>
        /\ SS_iter(q.s) = Keep(SS_iter(s_map), Elems \ Range(q.args))
                              \o Keep(Dedup(q.args), Elems \ Range(SS_iter(s_map)))
        /\ OS_iter(q.o.map) = Keep(OS_iter(o_map), Elems \ Range(q.args))
                                  \o Keep(Dedup(q.args), Elems \ Range(OS_iter(o_map)))

\* symmetric_difference has been called with an argument that repeats an
\* element that self does not hold
C14_Witness ==
    /\ q.name = "symmetric_difference"
    /\ s_map = <<1>>
    /\ q.args = <<2, 2>>
    /\ q.s = <<1, 2>>
    /\ q.o.items = <<1, 2>>

\* C15: in both variants, after difference_update(*sets), intersection_update(other)
\* or symmetric_difference_update(other), iteration yields the elements, in
\* the order, of what difference, intersection or symmetric_difference returns
\* on the previous state with the same arguments.
C15_UpdateMatchesPure ==
    /\ \A sets \in QuerySets :
           /\ SS_iter(SS_difference_update(s_map, sets).map) = SS_iter(SS_difference(s_map, sets))
           /\ OS_iter(OS_difference_update(o_items, o_map, sets).map)
                  = OS_iter(OS_difference(o_map, sets).map)
    /\ \A other \in Sources :
           /\ SS_iter(SS_intersection_update(s_map, other).map)
                  = SS_iter(SS_intersection(s_map, <<other>>))
           /\ OS_iter(OS_intersection_update(o_items, o_map, other).map)
                  = OS_iter(OS_intersection(o_map, <<other>>).map)
           /\ SS_iter(SS_symmetric_difference_update(s_map, other).map)
                  = SS_iter(SS_symmetric_difference(s_map, other))
           /\ OS_iter(OS_symmetric_difference_update(o_items, o_map, other).map)
                  = OS_iter(OS_symmetric_difference(o_map, other).map)

\* a is a subsequence of b, not necessarily contiguous
RECURSIVE IsSubsequence(_, _)
IsSubsequence(a, b) ==
    IF a = <<>> THEN TRUE
    ELSE IF b = <<>> THEN FALSE
    ELSE IF Head(a) = Head(b) THEN IsSubsequence(Tail(a), Tail(b))
    ELSE IsSubsequence(a, Tail(b))

\* C16: isorderedsubset(other) returns True exactly when self's elements
\* appear, in self's order, as a not necessarily contiguous subsequence of
\* other, also for an empty self; isorderedsuperset(other) returns what
\* isorderedsubset returns with self and other exchanged.
C16_OrderedSubset ==
    /\ q.name = "isorderedsubset" =>
           /\ q.s = QRes(<<IsSubsequence(SS_iter(s_map), q.args)>>, "ok")
           /\ q.o = QRes(<<IsSubsequence(OS_iter(o_map), q.args)>>, "ok")
    /\ q.name = "isorderedsuperset" =>
           /\ q.s = QRes(<<IsSubsequence(q.args, SS_iter(s_map))>>, "ok")
           /\ q.o = QRes(<<IsSubsequence(q.args, OS_iter(o_map))>>, "ok")

\* a is the first Len(a) elements of b
IsPrefixOf(a, b) == Len(a) <= Len(b) /\ SubSeq(b, 1, Len(a)) = a

\* a is the last Len(a) elements of b
IsPostfixOf(a, b) == Len(a) <= Len(b) /\ SubSeq(b, Len(b) - Len(a) + 1, Len(b)) = a

C18_Postfix ==
    q.name = "ispostfix" =>
        /\ q.s = QRes(<<IsPostfixOf(SS_iter(s_map), q.args)>>, "ok")
        /\ q.o = QRes(<<IsPostfixOf(OS_iter(o_map), q.args)>>, "ok")

\* C19: issubset(other) returns True exactly when every element of self is
\* in other, and issuperset(other) exactly when every element of other is in
\* self, also when other is a sequence that repeats elements.
C19_SubsetSuperset ==
    /\ q.name = "issubset" =>
           /\ q.s = QRes(<<Range(SS_iter(s_map)) \subseteq Range(q.args)>>, "ok")
           /\ q.o = QRes(<<Range(OS_iter(o_map)) \subseteq Range(q.args)>>, "ok")
    /\ q.name = "issuperset" =>
           /\ q.s = QRes(<<Range(q.args) \subseteq Range(SS_iter(s_map))>>, "ok")
           /\ q.o = QRes(<<Range(q.args) \subseteq Range(OS_iter(o_map))>>, "ok")

\* index has no element in a list of n elements
OutOfRange(n, index) == index >= n \/ index < 0 - n

\* C20: in both variants pop and popitem on an empty container raise KeyError,
\* pop(i) on a non-empty container with an i that has no element raises
\* IndexError, and the container is left as it was in each of these cases.
C20_PopErrors ==
    /\ SS_len(s_map) = 0 =>
           /\ \A i \in AnyPopIndexes : SS_pop(s_map, i) = SRes(s_map, <<>>, "KeyError")
           /\ \A last \in BOOLEAN : SS_popitem(s_map, last) = SRes(s_map, <<>>, "KeyError")
    /\ SS_len(s_map) > 0 =>
           \A i \in AnyPopIndexes :
               OutOfRange(SS_len(s_map), i) => SS_pop(s_map, i) = SRes(s_map, <<>>, "IndexError")
    /\ OS_len(o_map) = 0 =>
           /\ \A i \in AnyPopIndexes :
                  OS_pop(o_items, o_map, i) = ORes(o_items, o_map, <<>>, "KeyError")
           /\ \A last \in BOOLEAN :
                  OS_popitem(o_items, o_map, last) = ORes(o_items, o_map, <<>>, "KeyError")
    /\ OS_len(o_map) > 0 =>
           \A i \in AnyPopIndexes :
               OutOfRange(OS_len(o_map), i) =>
                   OS_pop(o_items, o_map, i) = ORes(o_items, o_map, <<>>, "IndexError")

\* s with x taken out and put at the end
MovedToEnd(s, x) == Append(Removed(s, x), x)

\* C21: in both variants move_to_end(x) of a present x makes x the last
\* element and keeps the size and the order of the others (in OrderedSet _map
\* and _items agree afterwards); for an absent x it raises KeyError and
\* leaves the container as it was.
C21_MoveToEnd ==
    \A x \in Elems :
        LET s == SS_move_to_end(s_map, x)
            o == OS_move_to_end(o_items, o_map, x)
        IN  /\ x \in Range(SS_iter(s_map)) =>
                   s.err = "ok" /\ SS_iter(s.map) = MovedToEnd(SS_iter(s_map), x)
            /\ x \notin Range(SS_iter(s_map)) => s = SRes(s_map, <<>>, "KeyError")
            /\ OS_contains(o_map, x) =>
                   /\ o.err = "ok"
                   /\ OS_iter(o.map) = MovedToEnd(OS_iter(o_map), x)
                   /\ PositionMapAgrees(o.items, o.map)
            /\ ~OS_contains(o_map, x) => o = ORes(o_items, o_map, <<>>, "KeyError")

\* C22: in both variants self[i] for an int i returns the i-th element of the
\* iteration order when 0 <= i < size and raises IndexError, and no other
\* error, for every i that has no element, negative ones included; the
\* container is left as it was.
C22_GetItem ==
    [][q'.name = "getitem" =>
          LET i == q'.args
          IN  /\ s_map' = s_map /\ o_items' = o_items /\ o_map' = o_map
              /\ (0 <= i /\ i < SS_len(s_map)) => q'.s = QRes(<<SS_iter(s_map)[i + 1]>>, "ok")
              /\ OutOfRange(SS_len(s_map), i) => q'.s = QRes(<<>>, "IndexError")
              /\ (0 <= i /\ i < OS_len(o_map)) => q'.o = QRes(<<OS_iter(o_map)[i + 1]>>, "ok")
              /\ OutOfRange(OS_len(o_map), i) => q'.o = QRes(<<>>, "IndexError")]_vars

\* C23: in both variants and in every reachable state index(x) returns the
\* zero-based position of x in the iteration order when x is present and
\* raises KeyError when x is absent; the container is left as it was.
C23_Index ==
    [][q'.name = "index" =>
          LET x == q'.args
          IN  /\ s_map' = s_map /\ o_items' = o_items /\ o_map' = o_map
              /\ q'.s = IF x \in Range(SS_iter(s_map))
                        THEN QRes(<<PosOf(SS_iter(s_map), x)>>, "ok")
                        ELSE QRes(<<>>, "KeyError")
              /\ q'.o = IF x \in Range(OS_iter(o_map))
                        THEN QRes(<<PosOf(OS_iter(o_map), x)>>, "ok")
                        ELSE QRes(<<>>, "KeyError")]_vars

\* the elements of sequence before the first one that cannot be hashed
RECURSIVE HashablePrefix(_)
HashablePrefix(sequence) ==
    IF sequence = <<>> \/ ~Hashable(Head(sequence)) THEN <<>>
    ELSE <<Head(sequence)>> \o HashablePrefix(Tail(sequence))

\* the sequences at which update fails after it has processed elements
FailingMidStream == {s \in BadSources : HashablePrefix(s) # <<>>}

\* C24 as stated: when update(source) raises ValueError at an element of
\* source after earlier elements, the elements before the failing one remain
\* added, in order, and the container is otherwise unchanged.
C24_NoRollback ==
    \A source \in FailingMidStream :
        LET s == SS_update(s_map, source)
            o == OS_update(o_items, o_map, source)
        IN  /\ s.err = "ValueError"
            /\ SS_iter(s.map) = Extended(SS_iter(s_map), HashablePrefix(source))
            /\ o.err = "ValueError"
            /\ OS_iter(o.map) = Extended(OS_iter(o_map), HashablePrefix(source))

\* C24 amended: when update(source) raises ValueError at an element of source
\* after earlier elements, in OrderedSet the elements before the failing one
\* remain added, in order, and the container is otherwise unchanged; in
\* StableSet the container is left as it was before the call.
C24_NoRollbackOrderedSet ==
    \A source \in FailingMidStream :
        LET s == SS_update(s_map, source)
            o == OS_update(o_items, o_map, source)
        IN  /\ s.err = "ValueError"
            /\ s.map = s_map
            /\ o.err = "ValueError"
            /\ OS_iter(o.map) = Extended(OS_iter(o_map), HashablePrefix(source))

\* an update has failed after its first element: the OrderedSet holds the
\* element and the StableSet does not
C24_Witness ==
    /\ op = "update"
    /\ s_map = <<>>
    /\ o_items = <<1>>
    /\ o_map = <<<<1, 0>>>>

\* C25: OrderedSet == other is true for a sequence other exactly when both
\* hold the same elements in the same order, for a set other that is no
\* sequence exactly when both hold the same set of elements, and false for an
\* other that cannot be iterated.
C25_OrderedSetEq ==
    q.name = "eq" =>
        q.o = IF q.args.kind = "sequence" THEN OS_iter(o_map) = q.args.items
              ELSE IF q.args.kind = "set" THEN Range(OS_iter(o_map)) = Range(q.args.items)
              ELSE FALSE

\* C26: for a StableSetEq S and a sequence L that may repeat elements, each
\* of S == L, S <= L, S < L, S >= L and S > L gives what the same comparison
\* gives between the set of S's elements and the set of L's elements.
C26_StableSetEqCompare ==
    /\ (q.name = "eq" /\ q.args.kind = "sequence") =>
           q.s = (Range(SS_iter(s_map)) = Range(q.args.items))
    /\ q.name = "compare" =>
           LET S == Range(SS_iter(s_map))
               L == Range(q.args)
           IN  /\ q.s.le = (S \subseteq L)
               /\ q.s.lt = (S \subseteq L /\ S # L)
               /\ q.s.ge = (L \subseteq S)
               /\ q.s.gt = (L \subseteq S /\ S # L)

\* C27: a StableSet and an OrderedSet built from the same sequence and given
\* the same add, discard, pop() or pop(i) with 0 <= i < size, popitem,
\* move_to_end, update, difference_update, intersection_update and
\* symmetric_difference_update calls iterate the same elements in the same
\* order after every step, and every pop and popitem returns the same element
\* in both.
C27_SameIteration ==
    /\ SS_iter(s_map) = OS_iter(o_map)
    /\ \A i \in (0 - 1)..(SS_len(s_map) - 1) :
           SS_pop(s_map, i).ret = OS_pop(o_items, o_map, i).ret
    /\ \A last \in BOOLEAN :
           SS_popitem(s_map, last).ret = OS_popitem(o_items, o_map, last).ret

\* C28: in OrderedSet, in every state its mutating methods reach, len() is
\* the length of _items and, for each i with 0 <= i < len(), self[i] (read
\* from _items) is the i-th element of the iteration (the keys of _map).
C28_ItemsMatchIteration ==
    /\ OS_len(o_map) = Len(o_items)
    /\ \A i \in 0..(OS_len(o_map) - 1) :
           OS_getitem_int(o_items, i) = QRes(<<OS_iter(o_map)[i + 1]>>, "ok")

\* C29: A | B, A - B, A & B and A ^ B give the elements, in the order, of
\* A.union(B), A.difference(B), A.intersection(B) and
\* A.symmetric_difference(B); none of them modifies A.
C29_OperatorsAsMethods ==
    [][q'.name = "operators" =>
          LET B == q'.args
          IN  /\ s_map' = s_map /\ o_items' = o_items /\ o_map' = o_map
              /\ SS_iter(q'.s.or) = SS_iter(SS_union(s_map, <<B>>))
              /\ SS_iter(q'.s.sub) = SS_iter(SS_difference(s_map, <<B>>))
              /\ SS_iter(q'.s.and) = SS_iter(SS_intersection(s_map, <<B>>))
              /\ SS_iter(q'.s.xor) = SS_iter(SS_symmetric_difference(s_map, B))
              /\ OS_iter(q'.o.or.map) = OS_iter(OS_union(o_map, <<B>>).map)
              /\ OS_iter(q'.o.sub.map) = OS_iter(OS_difference(o_map, <<B>>).map)
              /\ OS_iter(q'.o.and.map) = OS_iter(OS_intersection(o_map, <<B>>).map)
              /\ OS_iter(q'.o.xor.map) = OS_iter(OS_symmetric_difference(o_map, B).map)]_vars

\* the operators have been applied to a container and a list that holds one
\* of its elements and one that it lacks
C29_Witness ==
    /\ q.name = "operators"
    /\ s_map = <<1>>
    /\ q.args = <<2, 1>>
    /\ q.s.or = <<1, 2>>
    /\ q.s.sub = <<>>
    /\ q.s.and = <<1>>
    /\ q.s.xor = <<2>>
    /\ q.o.xor.items = <<2>>

====
